---- MODULE Spec2Model ----
(***************************************************************************)
(* The infrastructure catalog launcher (src/main.go): the bubbletea model  *)
(* struct, its Update handlers (launcher, create form, edit form), the     *)
(* asynchronous template fetch, and the files of the deployments on disk.  *)
(* Texts are sequences of one-character strings, so that trimming,         *)
(* splitting, quoting and cursor editing are computed as the code does.    *)
(***************************************************************************)
EXTENDS Integers, Sequences, FiniteSets, Bags, TLC

(* ------------------------------ bounds -------------------------------- *)

\* fetch commands in flight at the same time
MaxPending == 3
\* printable characters typed during one session
MaxTyped == 1
\* deployment directories under the apps path
MaxDeployments == 2
\* messages handled by Update during one session
MaxEvents == 5

(* ------------------------------- texts -------------------------------- *)

createLabels ==
  <<"vm_app", "platform_description", "zone", "platform_id", "vm_network_suffix",
    "vm_id_prefix", "vm_memory", "vm_cpu_cores", "vm_disk_count", "vm_disk_size",
    "vm_count", "vm_template", "cluster">>

\* the characters of each field key, as they stand in a variables file
KeyText ==
  [vm_app |-> <<"v", "m", "_", "a", "p", "p">>,
   platform_description |-> <<"p", "l", "a", "t", "f", "o", "r", "m", "_", "d", "e", "s", "c", "r", "i", "p", "t", "i", "o", "n">>,
   zone |-> <<"z", "o", "n", "e">>,
   platform_id |-> <<"p", "l", "a", "t", "f", "o", "r", "m", "_", "i", "d">>,
   vm_network_suffix |-> <<"v", "m", "_", "n", "e", "t", "w", "o", "r", "k", "_", "s", "u", "f", "f", "i", "x">>,
   vm_id_prefix |-> <<"v", "m", "_", "i", "d", "_", "p", "r", "e", "f", "i", "x">>,
   vm_memory |-> <<"v", "m", "_", "m", "e", "m", "o", "r", "y">>,
   vm_cpu_cores |-> <<"v", "m", "_", "c", "p", "u", "_", "c", "o", "r", "e", "s">>,
   vm_disk_count |-> <<"v", "m", "_", "d", "i", "s", "k", "_", "c", "o", "u", "n", "t">>,
   vm_disk_size |-> <<"v", "m", "_", "d", "i", "s", "k", "_", "s", "i", "z", "e">>,
   vm_count |-> <<"v", "m", "_", "c", "o", "u", "n", "t">>,
   vm_template |-> <<"v", "m", "_", "t", "e", "m", "p", "l", "a", "t", "e">>,
   cluster |-> <<"c", "l", "u", "s", "t", "e", "r">>]

clusterOptions ==
  << <<"c", "l", "1", "0", "4", "0", "0">>,
     <<"c", "l", "1", "2", "6", "0", "0", "k">>,
     <<"c", "l", "1", "2", "9", "0", "0", "h">>,
     <<"c", "l", "1", "3", "6", "0", "0", "k">> >>

zoneOptions ==
  << <<"s", "t", "a", "n", "d", "a", "r", "d">>,
     <<"a", "d", "m", "i", "n">>,
     <<"d", "m", "z">> >>

RECURSIVE TrimLeftSet(_, _)
TrimLeftSet(s, cut) ==
  IF s # <<>> /\ Head(s) \in cut THEN TrimLeftSet(Tail(s), cut) ELSE s

RECURSIVE TrimRightSet(_, _)
TrimRightSet(s, cut) ==
  IF s # <<>> /\ s[Len(s)] \in cut THEN TrimRightSet(SubSeq(s, 1, Len(s) - 1), cut) ELSE s

\* strings.Trim(s, cutset)
Trim(s, cut) == TrimRightSet(TrimLeftSet(s, cut), cut)

TrimSpace(s) == Trim(s, {" ", "\t"})

HasPrefix(s, p) == Len(s) >= Len(p) /\ SubSeq(s, 1, Len(p)) = p

\* the index of the first occurrence of character c in s, 0 when there is none
RECURSIVE IndexFrom(_, _, _)
IndexFrom(s, c, i) ==
  IF i > Len(s) THEN 0 ELSE IF s[i] = c THEN i ELSE IndexFrom(s, c, i + 1)

\* strings.Split(s, sep) for a one-character separator: never empty
RECURSIVE Split(_, _)
Split(s, sep) ==
  LET i == IndexFrom(s, sep, 1)
  IN IF i = 0 THEN <<s>>
     ELSE <<SubSeq(s, 1, i - 1)>> \o Split(SubSeq(s, i + 1, Len(s)), sep)

\* strings.Join(parts, sep)
RECURSIVE Join(_, _)
Join(parts, sep) ==
  IF parts = <<>> THEN <<>>
  ELSE IF Len(parts) = 1 THEN parts[1]
  ELSE parts[1] \o sep \o Join(Tail(parts), sep)

Digits == <<"0", "1", "2", "3", "4", "5", "6", "7", "8", "9">>

\* fmt.Sprintf("%d", n) for n >= 0
RECURSIVE Decimal(_)
Decimal(n) == IF n < 10 THEN <<Digits[n + 1]>> ELSE Decimal(n \div 10) \o <<Digits[(n % 10) + 1]>>

\* fmt.Sprintf("\"%s\"", s)
Quote(s) == <<"\"">> \o s \o <<"\"">>

\* fmt.Sprintf("%s = %s", key, newval)
FormatDecl(key, newval) == KeyText[key] \o <<" ", "=", " ">> \o newval

indexOf(label, labels) ==
  IF \E i \in 1..Len(labels) : labels[i] = label
  THEN CHOOSE i \in 1..Len(labels) : labels[i] = label /\ \A j \in 1..(i - 1) : labels[j] # label
  ELSE 0

(* ------------------------- bubbles textinput --------------------------- *)

\* textinput.New(): an empty, unfocused input with the cursor at 0
TiNew == [value |-> <<>>, pos |-> 0, focus |-> FALSE]

\* textinput.Model.SetValue: the cursor goes to the end when the input was
\* empty with the cursor at 0 or when the cursor is past the new end
TiSetValue(ti, s) ==
  [ti EXCEPT !.value = s,
             !.pos = IF (ti.pos = 0 /\ ti.value = <<>>) \/ ti.pos > Len(s)
                     THEN Len(s) ELSE ti.pos]

TiFocus(ti) == [ti EXCEPT !.focus = TRUE]

TiBlur(ti) == [ti EXCEPT !.focus = FALSE]

\* the keys that carry runes: a printable character, or the space key
Printable == {"a", "q", "u", "]"}

Runes == Printable \cup {" "}

\* textinput.Model.Update for a key message: nothing unless focused; left and
\* right move the cursor, a rune is inserted at the cursor, other keys of the
\* model's key set change nothing
TiUpdate(ti, key) ==
  IF ~ti.focus THEN ti
  ELSE IF key = "left" THEN [ti EXCEPT !.pos = IF ti.pos > 0 THEN ti.pos - 1 ELSE 0]
  ELSE IF key = "right" THEN [ti EXCEPT !.pos = IF ti.pos < Len(ti.value) THEN ti.pos + 1 ELSE ti.pos]
  ELSE IF key \in Runes
       THEN [ti EXCEPT !.value = SubSeq(ti.value, 1, ti.pos) \o <<key>>
                                  \o SubSeq(ti.value, ti.pos + 1, Len(ti.value)),
                       !.pos = ti.pos + 1]
  ELSE ti

(* --------------------- presets and field catalog ----------------------- *)

\* a preset value: the tagged union of the YAML value (string, int, list)
StrVal(s) == [kind |-> "string", v |-> s]

IntVal(n) == [kind |-> "int", v |-> n]

ListVal(l) == [kind |-> "list", v |-> l]

\* the type switch of initialModel / applyPresetToForm
Stringify(val) ==
  IF val.kind = "string" THEN val.v
  ELSE IF val.kind = "int" THEN Decimal(val.v)
  ELSE Join(val.v, <<",">>)

\* the presets directory of the session: "default" in the shape of the README's
\* presets/default.yaml, and a second preset that leaves fields out
PresetFiles ==
  << [Name |-> "default",
      Values |-> [vm_app |-> StrVal(<<"w", "e", "b">>),
                  platform_id |-> StrVal(<<"0", "1">>),
                  vm_memory |-> IntVal(8192),
                  vm_cpu_cores |-> StrVal(<<"2">>),
                  vm_disk_count |-> IntVal(1),
                  vm_disk_size |-> ListVal(<< <<"1", "0", "0", "G">>, <<"5", "0", "G">> >>),
                  vm_count |-> IntVal(1),
                  vm_template |-> StrVal(<<"t", "0">>),
                  zone |-> StrVal(<<"s", "t", "a", "n", "d", "a", "r", "d">>),
                  cluster |-> StrVal(<<"c", "l", "1", "0", "4", "0", "0">>)]],
     [Name |-> "db",
      Values |-> [vm_app |-> StrVal(<<"d", "b">>),
                  vm_memory |-> IntVal(4096),
                  vm_disk_size |-> ListVal(<< <<"2", "0", "G">> >>),
                  cluster |-> StrVal(<<"c", "l", "1", "2", "9", "0", "0", "h">>)]] >>

HasValue(preset, label) == label \in DOMAIN preset.Values

\* the fields fields.yaml leaves editable: the model's first editFormLabels,
\* and the description and the zone
Editable ==
  {"platform_description", "zone", "vm_cpu_cores", "vm_memory", "vm_count", "vm_disk_count",
   "vm_disk_size"}

StringTyped == {"platform_description", "vm_app", "zone", "cluster", "platform_id", "vm_template"}

\* fields.yaml: every form field described
FieldMetaDefault ==
  [k \in {createLabels[i] : i \in 1..Len(createLabels)} |->
     [ReadOnly |-> k \notin Editable,
      Type |-> IF k \in StringTyped THEN "string"
               ELSE IF k = "vm_disk_size" THEN "list" ELSE "number"]]

\* fields.yaml marking every form field read-only
FieldMetaAllReadOnly ==
  [k \in DOMAIN FieldMetaDefault |-> [FieldMetaDefault[k] EXCEPT !.ReadOnly = TRUE]]

\* the field catalogs a session can be started with
FieldCatalogs == {FieldMetaDefault, FieldMetaAllReadOnly}

(* --------------------------- form helpers ------------------------------ *)

cycleOption(current, options, dir) ==
  IF \E i \in 1..Len(options) : options[i] = current
  THEN LET i == CHOOSE j \in 1..Len(options) :
                  options[j] = current /\ \A k \in 1..(j - 1) : options[k] # current
       IN options[(((i - 1) + dir + Len(options)) % Len(options)) + 1]
  ELSE options[1]

\* one field of the form filled from a preset (the loop body of initialModel
\* and of applyPresetToForm)
PresetInto(ti, preset, label) ==
  IF HasValue(preset, label) THEN TiSetValue(ti, Stringify(preset.Values[label])) ELSE ti

applyPresetToForm(inputs, preset) ==
  [i \in 1..Len(createLabels) |-> PresetInto(inputs[i], preset, createLabels[i])]

\* the inputs initialModel builds: preset 0 applied to new inputs, input 0 focused
InitialInputs(presets) ==
  [i \in 1..Len(createLabels) |->
     LET ti == PresetInto(TiNew, presets[1], createLabels[i])
     IN IF i = 1 THEN TiFocus(ti) ELSE ti]

\* the focus/blur loop that follows a key in both forms
FocusOnly(inputs, focus) ==
  [i \in 1..Len(inputs) |-> IF i = focus THEN TiFocus(inputs[i]) ELSE TiBlur(inputs[i])]

\* the loop "Update textinputs": every input gets the key message
UpdateInputs(inputs, key) == [i \in 1..Len(inputs) |-> TiUpdate(inputs[i], key)]

ValueOf(inputs, labels, label) == inputs[indexOf(label, labels)].value

\* the list encoding of vm_disk_size, shared by create-submit and edit save
EncodeList(v) ==
  LET parts == Split(v, ",")
      arr == [i \in 1..Len(parts) |-> Quote(Trim(TrimSpace(parts[i]), {"\""}))]
  IN <<"[">> \o Join(arr, <<",", " ">>) \o <<"]">>

\* a slip: vm_memory is listed among the string fields
stringFieldsWithMemory ==
  {"platform_description", "vm_app", "zone", "cluster", "platform_id", "vm_template", "vm_memory"}

\* the hardcoded stringFields of create-submit
stringFields == {"platform_description", "vm_app", "zone", "cluster", "platform_id", "vm_template"}

EncodeCreate(key, v) ==
  IF key = "vm_disk_size" THEN EncodeList(v)
  ELSE IF key \in stringFields THEN Quote(v)
  ELSE v

EncodeEdit(key, v, meta) ==
  IF key = "vm_disk_size" THEN EncodeList(v)
  ELSE IF meta[key].Type = "string" THEN Quote(v)
  ELSE v

CreateUpdates(inputs) ==
  [k \in {createLabels[i] : i \in 1..Len(createLabels)} |->
     EncodeCreate(k, ValueOf(inputs, createLabels, k))]

EditUpdates(inputs, labels, meta) ==
  [k \in {labels[i] : i \in 1..Len(labels)} |-> EncodeEdit(k, ValueOf(inputs, labels, k), meta)]

\* "proxmox_<vm_app>_<zone>_<platform_id>", the directory name under the apps path
AppDir(inputs) ==
  <<"p", "r", "o", "x", "m", "o", "x", "_">>
    \o ValueOf(inputs, createLabels, "vm_app") \o <<"_">>
    \o ValueOf(inputs, createLabels, "zone") \o <<"_">>
    \o ValueOf(inputs, createLabels, "platform_id")

(* ------------------------- files of a deployment ----------------------- *)

\* the template's terraform.tfvars, one text per line (strings.Split on "\n"):
\* a comment, declarations with and without blanks around "=", a key no form
\* field has, a blank line; vm_network_suffix and vm_id_prefix are not declared
TemplateTfvars ==
  << <<"#", " ", "v", "a", "r", "s">>,
     FormatDecl("vm_app", Quote(<<"a", "p", "p">>)),
     FormatDecl("platform_description", Quote(<<"d", "e", "m", "o">>)),
     FormatDecl("zone", Quote(<<"d", "m", "z">>)),
     KeyText["platform_id"] \o <<"=">> \o Quote(<<"0", "0">>),
     FormatDecl("vm_memory", <<"2", "0", "4", "8">>),
     FormatDecl("vm_cpu_cores", <<"1">>),
     FormatDecl("vm_disk_count", <<"1">>),
     FormatDecl("vm_disk_size", <<"[">> \o Quote(<<"1", "0", "G">>) \o <<"]">>),
     FormatDecl("vm_count", <<"1">>),
     FormatDecl("vm_template", Quote(<<>>)),
     FormatDecl("cluster", Quote(<<"c", "l", "1", "0", "4", "0", "0">>)),
     <<"e", "x", "t", "r", "a", " ", "=", " ", "1">>,
     <<>> >>

\* a directory os.MkdirAll has made and nothing was copied into
NewDir == [hasTfvars |-> FALSE, tfvars |-> <<>>, s3 |-> FALSE, state |-> "NONE", lastAction |-> ""]

\* the directory after copyDir of the template
TemplateDir == [NewDir EXCEPT !.hasTfvars = TRUE, !.tfvars = TemplateTfvars]

\* loadTfvars, one line: blank lines, comments and lines without "=" are skipped
LineParses(line) ==
  /\ TrimSpace(line) # <<>>
  /\ ~HasPrefix(TrimSpace(line), <<"#">>)
  /\ IndexFrom(line, "=", 1) # 0

LineKey(line) == TrimSpace(SubSeq(line, 1, IndexFrom(line, "=", 1) - 1))

LineVal(line) == TrimSpace(SubSeq(line, IndexFrom(line, "=", 1) + 1, Len(line)))

\* loadTfvars: the map key -> raw value, the last declaration of a key winning
loadTfvars(lines) ==
  LET idx == {i \in 1..Len(lines) : LineParses(lines[i])}
      keys == {LineKey(lines[i]) : i \in idx}
      lastOf(k) == CHOOSE i \in idx : LineKey(lines[i]) = k /\ \A j \in idx : LineKey(lines[j]) = k => j <= i
  IN [k \in keys |-> LineVal(lines[lastOf(k)])]

\* vals[key] of a Go map: the empty string for a missing key
Lookup(vals, k) == IF k \in DOMAIN vals THEN vals[k] ELSE <<>>

\* the test of saveTfvars for one line and one update key
LineDeclares(line, key) ==
  \/ HasPrefix(TrimSpace(line), KeyText[key] \o <<" ">>)
  \/ HasPrefix(TrimSpace(line), KeyText[key] \o <<"=">>)

\* a slip: the line replaced is kept as a trailing comment of the new one
saveTfvarsKeepingOld(lines, updates) ==
  [i \in 1..Len(lines) |->
     IF \E k \in DOMAIN updates : LineDeclares(lines[i], k)
     THEN LET k == CHOOSE kk \in DOMAIN updates : LineDeclares(lines[i], kk)
          IN FormatDecl(k, updates[k]) \o <<" ", "#", " ">> \o lines[i]
     ELSE lines[i]]

\* a slip: an update key no line declares is declared in a line of its own,
\* put in front of the file
saveTfvarsAppending(lines, updates) ==
  LET patched == [i \in 1..Len(lines) |->
                    IF \E k \in DOMAIN updates : LineDeclares(lines[i], k)
                    THEN LET k == CHOOSE kk \in DOMAIN updates : LineDeclares(lines[i], kk)
                         IN FormatDecl(k, updates[k])
                    ELSE lines[i]]
      missing == {k \in DOMAIN updates : \A i \in 1..Len(lines) : ~LineDeclares(lines[i], k)}
  IN IF missing = {} THEN patched
     ELSE LET k == CHOOSE kk \in missing : TRUE IN <<FormatDecl(k, updates[k])>> \o patched

\* saveTfvars on the lines of the file: a line that declares an update key is
\* replaced by "key = value", every other line is kept
saveTfvars(lines, updates) ==
  [i \in 1..Len(lines) |->
     IF \E k \in DOMAIN updates : LineDeclares(lines[i], k)
     THEN LET k == CHOOSE kk \in DOMAIN updates : LineDeclares(lines[i], kk)
          IN FormatDecl(k, updates[k])
     ELSE lines[i]]

setDeploymentState(dir, state, action) == [dir EXCEPT !.state = state, !.lastAction = action]

\* getDeploymentState(path).State: UNKNOWN when launcher.state is missing
getDeploymentState(dir) == IF dir.state = "NONE" THEN "UNKNOWN" ELSE dir.state

\* getDeploymentState(path).State on the file system: UNKNOWN also when the
\* directory itself is missing
RecordAt(fs, path) == IF path \in DOMAIN fs THEN getDeploymentState(fs[path]) ELSE "UNKNOWN"

\* the file system with directory path set to dir
WithDir(fs, path, dir) == [p \in DOMAIN fs \cup {path} |-> IF p = path THEN dir ELSE fs[p]]

\* byte order of the characters texts are made of, for os.ReadDir's sorting
ByteOrder ==
  <<"\t", " ", "\"", "#", ",", "0", "1", "2", "3", "4", "5", "6", "7", "8", "9", "=",
    "G", "[", "]", "_", "a", "b", "c", "d", "e", "f", "g", "h", "i", "j", "k", "l", "m",
    "n", "o", "p", "q", "r", "s", "t", "u", "v", "w", "x", "y", "z">>

ByteOf(c) == CHOOSE i \in 1..Len(ByteOrder) : ByteOrder[i] = c

RECURSIVE NameBefore(_, _)
NameBefore(a, b) ==
  IF a = <<>> THEN b # <<>>
  ELSE IF b = <<>> THEN FALSE
  ELSE IF Head(a) = Head(b) THEN NameBefore(Tail(a), Tail(b))
  ELSE ByteOf(Head(a)) < ByteOf(Head(b))

\* os.ReadDir: the entries sorted by name
RECURSIVE ReadDir(_)
ReadDir(names) ==
  IF names = {} THEN <<>>
  ELSE LET first == CHOOSE n \in names : \A o \in names \ {n} : NameBefore(n, o)
       IN <<first>> \o ReadDir(names \ {first})

\* one row of listDeployments
DeploymentInfo(fs, path) ==
  [Name |-> path,
   Description |-> IF fs[path].hasTfvars
                   THEN Trim(Lookup(loadTfvars(fs[path].tfvars), KeyText["platform_description"]), {"\""})
                   ELSE <<>>,
   State |-> getDeploymentState(fs[path]),
   Path |-> path]

\* a slip: a directory whose variables file cannot be read is skipped
listDeploymentsStrict(fs) ==
  LET names == ReadDir({d \in DOMAIN fs : fs[d].hasTfvars})
  IN [i \in 1..Len(names) |-> DeploymentInfo(fs, names[i])]

listDeployments(fs) ==
  LET names == ReadDir(DOMAIN fs)
  IN [i \in 1..Len(names) |-> DeploymentInfo(fs, names[i])]

(* ------------------ the steps of create-submit and apply --------------- *)

\* a slip: each state record is written before the operation it records
CreateStepsEager ==
  <<"exists", "copy", "tfvars", "s3", "stateReady", "stateInit", "init", "stateDeployed", "apply">>

\* the steps of create-submit after "enter", in the order of the code
CreateSteps ==
  <<"exists", "copy", "tfvars", "s3", "stateReady", "init", "stateInit", "apply", "stateDeployed">>

\* the steps of the edit form's [A] Apply
ApplySteps == <<"init", "stateInit", "apply", "stateDeployed">>

\* a slip: the save also writes the state record, as create-submit does
SaveStepsWithState == <<"tfvars", "stateReady">>

\* the steps of the edit form's save
SaveSteps == <<"tfvars">>

\* what the outside world can answer to a step: copyDir succeeds, fails
\* before os.MkdirAll ("none") or fails after it ("partial"); the existence
\* check is decided by the files; every other call succeeds or fails
Answers(step) ==
  IF step = "exists" THEN {"ok"}
  ELSE IF step = "copy" THEN {"ok", "none", "partial"}
  ELSE {"ok", "fail"}

\* copyDir(template, dest)
copyDir(fs, dest, how) ==
  IF how = "ok" THEN WithDir(fs, dest, TemplateDir)
  ELSE IF how = "partial" THEN WithDir(fs, dest, NewDir)
  ELSE fs

\* a state write: os.WriteFile of launcher.state succeeds or leaves the file as it was
WriteState(fs, dest, ok, state, action) ==
  IF ok /\ dest \in DOMAIN fs
  THEN [fs EXCEPT ![dest] = setDeploymentState(@, state, action)]
  ELSE fs

\* a slip: the existence check looks for a finished deployment, so that a
\* partial one can be submitted again
StatDeployed(fs, dest) == dest \in DOMAIN fs /\ fs[dest].state = "DEPLOYED"

\* os.Stat(destPath) returning no error: the directory is there
Stat(fs, dest) == dest \in DOMAIN fs

\* one step on the file system under answer ans: whether it succeeded, and
\* the files after it
StepRun(step, fs, dest, ans, updates) ==
  LET good == ans = "ok" IN
  IF step = "exists" THEN [ok |-> ~Stat(fs, dest), fs |-> fs]
  ELSE IF step = "copy" THEN [ok |-> good, fs |-> copyDir(fs, dest, ans)]
  ELSE IF step = "tfvars"
       THEN LET ok == good /\ dest \in DOMAIN fs /\ fs[dest].hasTfvars
            IN [ok |-> ok,
                fs |-> IF ok THEN [fs EXCEPT ![dest].tfvars = saveTfvars(@, updates)] ELSE fs]
  ELSE IF step = "s3"
       THEN [ok |-> good, fs |-> IF good THEN [fs EXCEPT ![dest].s3 = TRUE] ELSE fs]
  ELSE IF step = "stateReady"
       THEN [ok |-> good, fs |-> WriteState(fs, dest, good, "READY", "save")]
  ELSE IF step = "init" THEN [ok |-> good, fs |-> fs]
  ELSE IF step = "stateInit"
       THEN [ok |-> good, fs |-> WriteState(fs, dest, good, "INITIALIZED", "init")]
  ELSE IF step = "apply" THEN [ok |-> good, fs |-> fs]
  ELSE [ok |-> good, fs |-> WriteState(fs, dest, good, "DEPLOYED", "apply")]

\* a slip: no "return" after the existence check
ProceedsPastExists(step, ok) == ok \/ step = "exists"

\* a slip: the error of the state write after init is dropped
ProceedsPastStateWrite(step, ok) == ok \/ step = "stateInit"

\* the "if err != nil { ...; return m, nil }" after every step: the handler
\* goes on to the next step only when the step succeeded
Proceeds(step, ok) == ok

\* the runs of a handler through its steps, one for every way the outside
\* world can answer the calls the handler makes: the steps are performed in
\* order until one fails. A run is the files after it and the trace of the
\* steps performed (step, success, the state record of dest after the step,
\* isBusy while it ran)
RECURSIVE RunSteps(_, _, _, _, _)
RunSteps(steps, fs, dest, updates, busy) ==
  IF steps = <<>> THEN {[fs |-> fs, trace |-> <<>>]}
  ELSE UNION {
         LET r == StepRun(Head(steps), fs, dest, ans, updates)
             e == [step |-> Head(steps), ok |-> r.ok, state |-> RecordAt(r.fs, dest), busy |-> busy]
         IN IF Proceeds(Head(steps), r.ok)
            THEN {[fs |-> rest.fs, trace |-> <<e>> \o rest.trace] :
                    rest \in RunSteps(Tail(steps), r.fs, dest, updates, busy)}
            ELSE {[fs |-> r.fs, trace |-> <<e>>]}
         : ans \in Answers(Head(steps))}

\* every step of the trace succeeded
AllOk(trace) == \A i \in 1..Len(trace) : trace[i].ok

\* the step the trace stopped at
LastStep(trace) == trace[Len(trace)].step

\* m.statusMessage after create-submit
CreateMessage(trace) ==
  IF AllOk(trace) THEN "Deployment deployed and ready!"
  ELSE IF LastStep(trace) = "exists" THEN "Deployment already exists!"
  ELSE IF LastStep(trace) = "copy" THEN "Failed to copy template"
  ELSE IF LastStep(trace) = "tfvars" THEN "Failed to write tfvars"
  ELSE IF LastStep(trace) = "s3" THEN "Failed to write s3.tf"
  ELSE IF LastStep(trace) = "stateReady" THEN "Failed to write launcher.state"
  ELSE IF LastStep(trace) = "init" THEN "terraform init failed"
  ELSE IF LastStep(trace) = "stateInit" THEN "Failed to update launcher.state (init)"
  ELSE IF LastStep(trace) = "apply" THEN "terraform apply failed"
  ELSE "Failed to update launcher.state (apply)"

\* m.editStatus after the edit form's apply
ApplyMessage(trace) ==
  IF AllOk(trace) THEN "Deployment applied and ready!"
  ELSE IF LastStep(trace) = "init" THEN "terraform init failed"
  ELSE IF LastStep(trace) = "stateInit" THEN "Failed to update launcher.state (init)"
  ELSE IF LastStep(trace) = "apply" THEN "terraform apply failed"
  ELSE "Failed to update launcher.state (apply)"

\* m.editStatus after the edit form's save
SaveMessage(trace) ==
  IF AllOk(trace) THEN "Saved! (You may now apply changes as needed.)" ELSE "Save failed"

\* a slip: the launcher is returned to whatever the steps did
SubmitSceneAlways(trace) == "Launcher"

\* the scene after create-submit: the launcher only after the last step
SubmitScene(trace) == IF AllOk(trace) THEN "Launcher" ELSE "CreateForm"

(* ------------------------------ the model ------------------------------ *)

NoCmd == [type |-> "none", cluster |-> <<>>]

\* tea.Quit
QuitCmd == [type |-> "quit", cluster |-> <<>>]

\* fetchTemplatesCmd(cluster): the command the runtime runs off the event loop
fetchTemplatesCmd(cluster) == [type |-> "fetch", cluster |-> cluster]

KeyMsg(key) == [type |-> "key", key |-> key, err |-> FALSE, templates |-> <<>>]

templatesFetchedMsg(templates, err) ==
  [type |-> "fetched", key |-> "", err |-> err, templates |-> templates]

\* what a handler returns: the model, the files, the command, and the trace
\* of the external steps it performed on directory target, whose state
\* record was before when the handler began
Result(m, fs, cmd) ==
  [m |-> m, fs |-> fs, cmd |-> cmd, trace |-> <<>>, target |-> <<>>, before |-> "UNKNOWN",
   panic |-> FALSE]

\* the result of a handler that ran the steps of run on directory dest
RunResult(m, fs, run, dest) ==
  [m |-> m, fs |-> run.fs, cmd |-> NoCmd, trace |-> run.trace, target |-> dest,
   before |-> RecordAt(fs, dest), panic |-> FALSE]

initialModel(presets, fieldMeta, fs) ==
  [presets |-> presets,
   presetIdx |-> 0,
   fieldMeta |-> fieldMeta,
   currentScene |-> "Launcher",
   statusMessage |-> "",
   createInputs |-> InitialInputs(presets),
   createFocus |-> 0,
   deployments |-> listDeployments(fs),
   deployCursor |-> 0,
   editStatus |-> "",
   editFormInputs |-> <<>>,
   editFormLabels |-> <<"vm_cpu_cores", "vm_memory", "vm_count", "vm_disk_count", "vm_disk_size">>,
   editFormPath |-> <<>>,
   editFocusIndex |-> 0,
   templatesForCluster |-> <<>>,
   isFetchingTemplates |-> FALSE,
   isBusy |-> FALSE]

\* a slip: the scene is not changed
withSceneKept(m, s) == m

withScene(m, s) == [m EXCEPT !.currentScene = s]

(* ------------------------------ launcher ------------------------------- *)

\* table.Model MoveUp / MoveDown: the cursor clamped to the rows
MoveCursor(cursor, by, rows) ==
  LET v == cursor + by
      low == IF v < 0 THEN 0 ELSE v
  IN IF low > rows - 1 THEN rows - 1 ELSE low

buildEditFormLabels(fieldMeta, orderedFields) ==
  LET editable(key) == ~fieldMeta[key].ReadOnly
  IN SelectSeq(orderedFields, editable)

buildEditFormInputs(tfvars, labels) ==
  [i \in 1..Len(labels) |->
     TiSetValue(TiNew, Trim(Lookup(tfvars, KeyText[labels[i]]), {"\"", "[", "]"}))]

\* "enter" / "e" in the launcher: the edit form of the selected deployment
OpenEditForm(m, fs) ==
  LET idx == m.deployCursor IN
  IF ~(idx >= 0 /\ idx < Len(m.deployments)) THEN Result(m, fs, NoCmd)
  ELSE LET dep == m.deployments[idx + 1] IN
       IF ~(dep.Path \in DOMAIN fs /\ fs[dep.Path].hasTfvars)
       THEN Result([m EXCEPT !.editStatus = "Could not load tfvars"], fs, NoCmd)
       ELSE LET labels == buildEditFormLabels(m.fieldMeta, createLabels)
                inputs == buildEditFormInputs(loadTfvars(fs[dep.Path].tfvars), labels)
            IN IF labels = <<>>
               THEN [Result(m, fs, NoCmd) EXCEPT !.panic = TRUE]
               ELSE Result([m EXCEPT !.editFormInputs = [inputs EXCEPT ![1] = TiFocus(@)],
                                     !.editFormLabels = labels,
                                     !.editFormPath = dep.Path,
                                     !.editFocusIndex = 0,
                                     !.currentScene = "EditForm"], fs, NoCmd)

updateLauncher(m, fs, msg) ==
  IF msg.type # "key" THEN Result(m, fs, NoCmd)
  ELSE IF msg.key \in {"up", "k"}
       THEN Result([m EXCEPT !.deployCursor = MoveCursor(@, -1, Len(m.deployments))], fs, NoCmd)
  ELSE IF msg.key \in {"down", "j"}
       THEN Result([m EXCEPT !.deployCursor = MoveCursor(@, 1, Len(m.deployments))], fs, NoCmd)
  ELSE IF msg.key = "n" THEN Result(withScene(m, "CreateForm"), fs, NoCmd)
  ELSE IF msg.key \in {"enter", "e"} THEN OpenEditForm(m, fs)
  ELSE IF msg.key \in {"q", "esc"} THEN Result(m, fs, QuitCmd)
  ELSE IF msg.key \in {"r", "R"}
       THEN Result([m EXCEPT !.deployments = listDeployments(fs),
                             !.statusMessage = "Deployments refreshed!"], fs, NoCmd)
  ELSE Result(m, fs, NoCmd)

(* ----------------------------- create form ----------------------------- *)

\* the fields that only cycle (readonlyFields of updateCreateForm)
readonlyFields == {"zone", "cluster", "vm_template"}

SetCreateValue(m, label, v) ==
  [m EXCEPT !.createInputs[indexOf(label, createLabels)] = TiSetValue(@, v)]

\* a slip: no second fetch while one is in flight
CycleClusterOnce(m, fs, dir) ==
  LET newCluster == cycleOption(ValueOf(m.createInputs, createLabels, "cluster"), clusterOptions, dir)
  IN Result([SetCreateValue(m, "cluster", newCluster) EXCEPT !.isFetchingTemplates = TRUE],
            fs, IF m.isFetchingTemplates THEN NoCmd ELSE fetchTemplatesCmd(newCluster))

\* "left" (dir = -1), "right" and " " (dir = +1) on the cluster field: the
\* new cluster is set, the fetching flag raised, and the fetch command returned
CycleCluster(m, fs, dir) ==
  LET newCluster == cycleOption(ValueOf(m.createInputs, createLabels, "cluster"), clusterOptions, dir)
  IN Result([SetCreateValue(m, "cluster", newCluster) EXCEPT !.isFetchingTemplates = TRUE],
            fs, fetchTemplatesCmd(newCluster))

\* the same keys on zone and vm_template: the value is cycled in place
CycleInPlace(m, curLabel, dir) ==
  IF curLabel = "zone"
  THEN SetCreateValue(m, "zone", cycleOption(ValueOf(m.createInputs, createLabels, "zone"), zoneOptions, dir))
  ELSE IF Len(m.templatesForCluster) > 0
       THEN SetCreateValue(m, "vm_template",
                           cycleOption(ValueOf(m.createInputs, createLabels, "vm_template"),
                                       m.templatesForCluster, dir))
       ELSE m

FocusNext(focus, n) == (focus + 1) % n

\* a slip: the focus stops at the first field instead of wrapping
FocusPrevClamped(focus, n) == IF focus = 0 THEN 0 ELSE focus - 1

FocusPrev(focus, n) == (focus - 1 + n) % n

\* "f2" (dir = -1) and "f3" (dir = +1): the next preset, applied to the form
SwitchPreset(m, dir) ==
  LET idx == (m.presetIdx + dir + Len(m.presets)) % Len(m.presets)
  IN [m EXCEPT !.presetIdx = idx,
               !.createInputs = applyPresetToForm(@, m.presets[idx + 1])]

\* the save/deploy sequence of "enter"
CreateSubmit(m, fs) ==
  LET dest == AppDir(m.createInputs)
  IN {RunResult([m EXCEPT !.statusMessage = CreateMessage(run.trace),
                                 !.currentScene = SubmitScene(run.trace)], fs, run, dest) :
        run \in RunSteps(CreateSteps, fs, dest, CreateUpdates(m.createInputs), m.isBusy)}

\* the end of the key case: focus/blur loop, then every input gets the key
CreateInputsAfterKey(m, key) ==
  [m EXCEPT !.createInputs = UpdateInputs(FocusOnly(@, m.createFocus + 1), key)]

\* the key case of updateCreateForm: the results it can return
CreateFormKey(m, fs, key) ==
  LET curLabel == createLabels[m.createFocus + 1]
      n == Len(m.createInputs)
      moved == IF key \in {"tab", "down"} THEN [m EXCEPT !.createFocus = FocusNext(@, n)]
               ELSE IF key \in {"shift+tab", "up"} THEN [m EXCEPT !.createFocus = FocusPrev(@, n)]
               ELSE m
  IN IF key \in {"esc", "ctrl+c"} THEN {Result(withScene(m, "Launcher"), fs, NoCmd)}
     ELSE IF curLabel \in readonlyFields
     THEN IF key \in {"left", "right", " "}
          THEN LET dir == IF key = "left" THEN -1 ELSE 1
               IN IF curLabel = "cluster" THEN {CycleCluster(m, fs, dir)}
                  ELSE {Result(CreateInputsAfterKey(CycleInPlace(m, curLabel, dir), key), fs, NoCmd)}
          ELSE IF key \in {"tab", "shift+tab", "up", "down"}
               THEN {Result(CreateInputsAfterKey(moved, key), fs, NoCmd)}
          ELSE IF key = "f2" THEN {Result(SwitchPreset(m, -1), fs, NoCmd)}
          ELSE IF key = "f3" THEN {Result(SwitchPreset(m, 1), fs, NoCmd)}
          ELSE IF key = "enter" THEN CreateSubmit(m, fs)
          ELSE {Result(m, fs, NoCmd)}
     ELSE IF key = "enter" THEN CreateSubmit(moved, fs)
          ELSE {Result(CreateInputsAfterKey(moved, key), fs, NoCmd)}

\* the templatesFetchedMsg case of updateCreateForm
CreateFormFetched(m, msg) ==
  LET m1 == [m EXCEPT !.isFetchingTemplates = FALSE]
  IN IF msg.err
     THEN [m1 EXCEPT !.statusMessage = "Could not fetch templates",
                     !.templatesForCluster = <<>>]
     ELSE LET m2 == [m1 EXCEPT !.templatesForCluster = msg.templates]
          IN IF Len(msg.templates) > 0
             THEN SetCreateValue(m2, "vm_template", msg.templates[1])
             ELSE SetCreateValue(m2, "vm_template", <<>>)

updateCreateForm(m, fs, msg) ==
  IF msg.type = "key" THEN CreateFormKey(m, fs, msg.key)
  ELSE {Result(CreateFormFetched(m, msg), fs, NoCmd)}

(* ------------------------------ edit form ------------------------------ *)

\* left / right / space in the edit form: zone and cluster cycle, nothing else does
EditCycle(m, curLabel, dir) ==
  IF curLabel = "zone"
  THEN [m EXCEPT !.editFormInputs[m.editFocusIndex + 1] = TiSetValue(@, cycleOption(@.value, zoneOptions, dir))]
  ELSE IF curLabel = "cluster"
  THEN [m EXCEPT !.editFormInputs[m.editFocusIndex + 1] = TiSetValue(@, cycleOption(@.value, clusterOptions, dir))]
  ELSE m

\* "enter": save tfvars only
EditSave(m, fs) ==
  {RunResult([m EXCEPT !.editStatus = SaveMessage(run.trace)], fs, run, m.editFormPath) :
     run \in RunSteps(SaveSteps, fs, m.editFormPath,
                      EditUpdates(m.editFormInputs, m.editFormLabels, m.fieldMeta), m.isBusy)}

\* "a": terraform init and apply in the directory of the edited tfvars
EditApply(m, fs) ==
  {RunResult([m EXCEPT !.editStatus = ApplyMessage(run.trace)], fs, run, m.editFormPath) :
     run \in RunSteps(ApplySteps, fs, m.editFormPath, <<>>, m.isBusy)}

EditInputsAfterKey(m, key) ==
  [m EXCEPT !.editFormInputs = UpdateInputs(FocusOnly(@, m.editFocusIndex + 1), key)]

updateEditForm(m, fs, msg) ==
  IF msg.type # "key" THEN {Result(m, fs, NoCmd)}
  ELSE LET key == msg.key
           curLabel == m.editFormLabels[m.editFocusIndex + 1]
           n == Len(m.editFormInputs)
       IN IF key \in {"esc", "q"} THEN {Result(withScene(m, "Launcher"), fs, NoCmd)}
          ELSE IF key = "enter" THEN EditSave(m, fs)
          ELSE IF key = "a" THEN EditApply(m, fs)
          ELSE LET m1 == IF key \in {"tab", "down"} THEN [m EXCEPT !.editFocusIndex = FocusNext(@, n)]
                         ELSE IF key \in {"shift+tab", "up"} THEN [m EXCEPT !.editFocusIndex = FocusPrev(@, n)]
                         ELSE IF key = "left" THEN EditCycle(m, curLabel, -1)
                         ELSE IF key \in {"right", " "} THEN EditCycle(m, curLabel, 1)
                         ELSE m
               IN {Result(EditInputsAfterKey(m1, key), fs, NoCmd)}

(* --------------------------------- View -------------------------------- *)

\* model.View, the message fields it renders in the tooltip line: the
\* launcher renders statusMessage, the create form the help text of the
\* focused field, the edit form editStatus when it is not empty and the
\* help text otherwise
View(mm) ==
  IF mm.currentScene = "Launcher" THEN {"statusMessage"}
  ELSE IF mm.currentScene = "CreateForm" THEN {"help"}
  ELSE IF mm.currentScene = "EditForm"
       THEN IF mm.editStatus # "" THEN {"editStatus"} ELSE {"help"}
  ELSE {}

(* -------------------------------- Update ------------------------------- *)

\* model.Update: while isBusy only "q" and "esc" do anything (they quit);
\* otherwise the handler of the current scene gets the message. The value is
\* the set of results the call can return, one for every way the outside
\* world can answer the handler
Update(m, fs, msg) ==
  IF m.isBusy
  THEN IF msg.type = "key" /\ msg.key \in {"q", "esc"} THEN {Result(m, fs, QuitCmd)}
       ELSE {Result(m, fs, NoCmd)}
  ELSE IF m.currentScene = "Launcher" THEN {updateLauncher(m, fs, msg)}
  ELSE IF m.currentScene = "CreateForm" THEN updateCreateForm(m, fs, msg)
  ELSE IF m.currentScene = "EditForm" THEN updateEditForm(m, fs, msg)
  ELSE {Result(m, fs, NoCmd)}

(* ---------------------- the program and its world ---------------------- *)

VARIABLES
  m,        \* the bubbletea model value held by the runtime
  fs,       \* the apps directory: deployment path -> its files
  pending,  \* the fetch commands in flight: a bag of cluster names
  phase,    \* "running", "quit" (tea.Quit was returned) or "crashed" (a panic)
  last,     \* the message Update handled last (for a fetch result, the cluster
            \* requested), the command it returned, and the trace of the
            \* external steps it performed on directory target
  nEvents,  \* messages handled so far
  nTyped    \* rune keys pressed so far

vars == <<m, fs, pending, phase, last, nEvents, nTyped>>

\* the keys of the session: one key of every case label of the handlers, "u",
\* and a closing bracket
Keys ==
  {"up", "down", "n", "enter", "q", "esc", "r", "u", "]", "left", "right", " ", "tab",
   "shift+tab", "f2", "f3", "a"}

\* the template names the inventory of each cluster holds (already filtered
\* by fetchTemplatesForCluster, which keeps every matching virtual machine:
\* two of them can bear the same name)
Inventory(cluster) ==
  IF cluster = clusterOptions[1] THEN << <<"t", "1">>, <<"t", "2">> >>
  ELSE IF cluster = clusterOptions[2] THEN << <<"t", "2">> >>
  ELSE IF cluster = clusterOptions[4] THEN << <<"t", "1">>, <<"t", "1">>, <<"t", "2">> >>
  ELSE <<>>

\* fetchTemplatesForCluster(cluster) wrapped in its message: the list, or an
\* error (vault credentials missing, the API call failing)
FetchAnswers(cluster) ==
  {templatesFetchedMsg(Inventory(cluster), FALSE), templatesFetchedMsg(<<>>, TRUE)}

\* the deployment a create-submit of the first preset leaves, with the state
\* record it reached
PresetDeployment(state, action) ==
  [hasTfvars |-> TRUE,
   tfvars |-> saveTfvars(TemplateTfvars, CreateUpdates(InitialInputs(PresetFiles))),
   s3 |-> TRUE, state |-> state, lastAction |-> action]

\* the vm_disk_size values of a variables file written by hand: the empty
\* list, and a list whose element ends with a bracket
HandWrittenDiskSizes ==
  {<<"[", "]">>, <<"[">> \o Quote(<<"5", "G", "]">>) \o <<"]">>}

\* the first preset's deployment without a state record and with its
\* vm_disk_size line written by hand
HandEdited(diskSize) ==
  [PresetDeployment("NONE", "") EXCEPT !.tfvars = saveTfvars(@, "vm_disk_size" :> diskSize)]

\* the apps directory at start: empty, or holding the first preset's
\* deployment in one of its lifecycle states, or that deployment edited by
\* hand and never touched by the launcher (no launcher.state)
InitialDisks ==
  {<<>>} \cup
  {WithDir(<<>>, AppDir(InitialInputs(PresetFiles)), PresetDeployment(sa[1], sa[2])) :
     sa \in {<<"READY", "save">>, <<"INITIALIZED", "init">>, <<"DEPLOYED", "apply">>}} \cup
  {WithDir(<<>>, AppDir(InitialInputs(PresetFiles)), HandEdited(d)) : d \in HandWrittenDiskSizes}

NoEvent ==
  [msg |-> KeyMsg(""), request |-> <<>>, cmd |-> NoCmd, trace |-> <<>>, target |-> <<>>,
   before |-> "UNKNOWN"]

\* the sessions: every apps directory under the usual catalog, and the
\* all-read-only catalog over the READY deployment
Sessions ==
  {[disk |-> d, meta |-> FieldMetaDefault] : d \in InitialDisks} \cup
  {[disk |-> WithDir(<<>>, AppDir(InitialInputs(PresetFiles)), PresetDeployment("READY", "save")),
    meta |-> FieldMetaAllReadOnly]}

Init ==
  /\ \E s \in Sessions :
       /\ s.meta \in FieldCatalogs
       /\ fs = s.disk
       /\ m = initialModel(PresetFiles, s.meta, fs)
  /\ pending = EmptyBag
  /\ phase = "running"
  /\ last = NoEvent
  /\ nEvents = 0
  /\ nTyped = 0

\* the runtime hands msg to Update and takes the model and the command back;
\* inflight is the bag of fetches still in flight besides a new command
Handle(msg, request, inflight) ==
  \E r \in Update(m, fs, msg) :
     /\ m' = r.m
     /\ fs' = r.fs
     /\ pending' = IF r.cmd.type = "fetch" THEN inflight (+) SetToBag({r.cmd.cluster}) ELSE inflight
     /\ phase' = IF r.panic THEN "crashed" ELSE IF r.cmd.type = "quit" THEN "quit" ELSE "running"
     /\ last' = [msg |-> msg, request |-> request, cmd |-> r.cmd, trace |-> r.trace,
                 target |-> r.target, before |-> r.before]
     /\ nEvents' = nEvents + 1
     /\ BagCardinality(pending') <= MaxPending
     /\ Cardinality(DOMAIN fs') <= MaxDeployments

\* a key press
KeyPress ==
  /\ phase = "running"
  /\ nEvents < MaxEvents
  /\ \E key \in Keys :
       /\ key \in Runes => nTyped < MaxTyped
       /\ nTyped' = IF key \in Runes THEN nTyped + 1 ELSE nTyped
       /\ Handle(KeyMsg(key), <<>>, pending)

\* a fetch command finishes: its message is handed to Update
FetchDone ==
  /\ phase = "running"
  /\ nEvents < MaxEvents
  /\ \E cluster \in BagToSet(pending) :
       \E msg \in FetchAnswers(cluster) :
         Handle(msg, cluster, pending (-) SetToBag({cluster}))
  /\ UNCHANGED nTyped

Next == KeyPress \/ FetchDone

Spec == Init /\ [][Next]_vars

(* ------------------------------ the claims ----------------------------- *)

Rank(state) ==
  IF state = "UNKNOWN" THEN 0 ELSE IF state = "READY" THEN 1 ELSE IF state = "INITIALIZED" THEN 2 ELSE 3

\* the handler that ran last was create-submit / the edit form's apply / its save
CreateRan == last.trace # <<>> /\ last.trace[1].step = "exists"

ApplyRan == last.trace # <<>> /\ last.trace[1].step = "init"

SaveRan == last.trace # <<>> /\ last.trace[1].step = "tfvars" /\ ~CreateRan

\* the state record of the target before step i of the last handler's trace
RecordBefore(i) == IF i = 1 THEN last.before ELSE last.trace[i - 1].state

\* step name succeeded in the last handler's trace
Succeeded(name) == \E i \in 1..Len(last.trace) : last.trace[i].step = name /\ last.trace[i].ok

\* step name was performed and failed in the last handler's trace
Failed(name) == \E i \in 1..Len(last.trace) : last.trace[i].step = name /\ ~last.trace[i].ok

\* C1 (as claimed): in no step does the rank of a deployment's persisted
\* state record (UNKNOWN < READY < INITIALIZED < DEPLOYED) decrease.
C1_NeverRegresses ==
  [][\A d \in DOMAIN fs : Rank(RecordAt(fs', d)) >= Rank(RecordAt(fs, d))]_vars

\* C2 (as claimed): every change of the state record made by a handler moves
\* it to the immediate successor in UNKNOWN -> READY -> INITIALIZED -> DEPLOYED.
C2_ImmediateSuccessor ==
  \A i \in 1..Len(last.trace) :
     \/ last.trace[i].state = RecordBefore(i)
     \/ Rank(last.trace[i].state) = Rank(RecordBefore(i)) + 1

\* C3: in create-submit and in the edit form's apply, the record changes only
\* in a state write; INITIALIZED is written only right after an init that
\* succeeded and DEPLOYED only right after an apply that succeeded; when init
\* fails the run ends with the record as it was when init began (in
\* create-submit: READY, which the step before init wrote), and when apply
\* fails the run ends with the record INITIALIZED.
C3_StateFollowsOutcome ==
  (CreateRan \/ ApplyRan) =>
    \A i \in 1..Len(last.trace) :
       LET e == last.trace[i] IN
       /\ e.state # RecordBefore(i) => e.step \in {"stateReady", "stateInit", "stateDeployed"} /\ e.ok
       /\ e.step = "stateInit" =>
            /\ i > 1 /\ last.trace[i - 1].step = "init" /\ last.trace[i - 1].ok
            /\ e.ok => e.state = "INITIALIZED"
       /\ e.step = "stateDeployed" =>
            /\ i > 1 /\ last.trace[i - 1].step = "apply" /\ last.trace[i - 1].ok
            /\ Succeeded("init")
            /\ e.ok => e.state = "DEPLOYED"
       /\ (e.step = "init" /\ ~e.ok) =>
            i = Len(last.trace) /\ RecordAt(fs, last.target) = RecordBefore(i)
       /\ (e.step = "apply" /\ ~e.ok) =>
            i = Len(last.trace) /\ Succeeded("init") /\ RecordAt(fs, last.target) = "INITIALIZED"

\* C3 witness: an edit-form apply whose init succeeded and whose apply failed.
C3_Witness == ApplyRan /\ Succeeded("init") /\ Failed("apply")

\* the state record the successful state writes of the last trace leave
WrittenRecord ==
  IF Succeeded("stateDeployed") THEN "DEPLOYED"
  ELSE IF Succeeded("stateInit") THEN "INITIALIZED"
  ELSE IF Succeeded("stateReady") THEN "READY"
  ELSE "UNKNOWN"

\* C4: create-submit performs a prefix of the fixed order of steps; only the
\* last step performed can have failed, and then no later step is performed;
\* the launcher is returned to only after all nine steps; and what the
\* successful steps wrote is on disk after the handler (nothing rolled back).
C4_FixedOrderStopAtFailure ==
  CreateRan =>
    /\ Len(last.trace) <= Len(CreateSteps)
    /\ \A i \in 1..Len(last.trace) : last.trace[i].step = CreateSteps[i]
    /\ \A i \in 1..(Len(last.trace) - 1) : last.trace[i].ok
    /\ last.trace[Len(last.trace)].ok => Len(last.trace) = Len(CreateSteps)
    /\ m.currentScene = "Launcher" <=> (Len(last.trace) = Len(CreateSteps) /\ AllOk(last.trace))
    /\ Succeeded("copy") => last.target \in DOMAIN fs /\ fs[last.target].hasTfvars
    /\ Succeeded("tfvars") =>
         fs[last.target].tfvars = saveTfvars(TemplateTfvars, CreateUpdates(m.createInputs))
    /\ Succeeded("s3") => fs[last.target].s3
    /\ Succeeded("copy") => RecordAt(fs, last.target) = WrittenRecord

\* C4 witness: a create-submit whose init succeeded and whose state write
\* after init failed.
C4_Witness == CreateRan /\ Succeeded("init") /\ Failed("stateInit")

\* C5: a failed create-submit leaves the scene at CreateForm with a status
\* message, a failed edit save or apply leaves it at EditForm with an edit
\* status, and create-submit reaches the launcher only when every step succeeded.
C5_FailureStaysInForm ==
  /\ (CreateRan /\ ~AllOk(last.trace)) => m.currentScene = "CreateForm" /\ m.statusMessage # ""
  /\ ((ApplyRan \/ SaveRan) /\ ~AllOk(last.trace)) => m.currentScene = "EditForm" /\ m.editStatus # ""
  /\ (CreateRan /\ m.currentScene = "Launcher") =>
       AllOk(last.trace) /\ Len(last.trace) = Len(CreateSteps)

\* C5 witness: a create-submit that failed at terraform apply.
C5_Witness == CreateRan /\ Failed("apply")

\* C6: "enter" in the create form while the directory of the form's identity
\* exists changes no file, performs no step after the existence check (no
\* copy, no write, no init, no apply) and stays in the create form.
C6_ExistingUntouched ==
  [][(/\ phase = "running"
      /\ m.currentScene = "CreateForm"
      /\ ~m.isBusy
      /\ last'.msg = KeyMsg("enter")
      /\ AppDir(m.createInputs) \in DOMAIN fs)
     => /\ fs' = fs
        /\ Len(last'.trace) = 1
        /\ last'.trace[1].step = "exists" /\ ~last'.trace[1].ok
        /\ m'.currentScene = "CreateForm"]_vars

\* C6 witness: a create-submit stopped by the existence check.
C6_Witness == CreateRan /\ Failed("exists") /\ m.statusMessage = "Deployment already exists!"

\* C7 (as claimed): terraform init and apply run only while isBusy is true.
C7_BusyWhileRunning ==
  \A i \in 1..Len(last.trace) : last.trace[i].step \in {"init", "apply"} => last.trace[i].busy

\* C8 (as claimed): after the create form handled a fetch result carrying an
\* error, the option list is empty, vm_template is empty and the status
\* message is not.
C8_ErrorClearsTemplate ==
  (last.msg.type = "fetched" /\ last.msg.err /\ m.currentScene = "CreateForm") =>
    /\ m.templatesForCluster = <<>>
    /\ ValueOf(m.createInputs, createLabels, "vm_template") = <<>>
    /\ m.statusMessage # ""

\* the label of the create form's focused field
CreateFocusLabel == createLabels[m.createFocus + 1]

\* C9: "left", "right" or space on the cluster field of the create form
\* selects another cluster and returns, in that step, exactly one fetch
\* command for it: the requests in flight are the earlier ones and the new one.
C9_CycleIssuesFetch ==
  [][(/\ phase = "running"
      /\ m.currentScene = "CreateForm"
      /\ ~m.isBusy
      /\ CreateFocusLabel = "cluster"
      /\ last'.msg.type = "key"
      /\ last'.msg.key \in {"left", "right", " "})
     => LET new == ValueOf(m'.createInputs, createLabels, "cluster") IN
        /\ new # ValueOf(m.createInputs, createLabels, "cluster")
        /\ last'.cmd = fetchTemplatesCmd(new)
        /\ pending' = pending (+) SetToBag({new})
        /\ m'.isFetchingTemplates
        /\ m'.currentScene = "CreateForm"]_vars

\* C9 witness: a cycle of the cluster field has issued a fetch for a cluster
\* for which an earlier fetch is still in flight.
C9_Witness ==
  /\ last.msg.type = "key" /\ last.msg.key \in {"left", "right", " "}
  /\ last.cmd.type = "fetch"
  /\ CopiesIn(last.cmd.cluster, pending) >= 2

\* C10 (as claimed): whichever scene is active when a fetch result is handled,
\* it replaces the option list and clears the fetching flag.
C10_ResultConsumed ==
  last.msg.type = "fetched" =>
    /\ ~m.isFetchingTemplates
    /\ m.templatesForCluster = last.msg.templates

\* the form on screen: its scene, its inputs, its labels and its focus index
FormActive == m.currentScene \in {"CreateForm", "EditForm"}

FormInputs(mm) == IF mm.currentScene = "CreateForm" THEN mm.createInputs ELSE mm.editFormInputs

FormLabels(mm) == IF mm.currentScene = "CreateForm" THEN createLabels ELSE mm.editFormLabels

FormFocus(mm) == IF mm.currentScene = "CreateForm" THEN mm.createFocus ELSE mm.editFocusIndex

\* the focus index after k presses of focus-next from f in a form of n fields
RECURSIVE FocusNextTimes(_, _, _)
FocusNextTimes(f, n, k) == IF k = 0 THEN f ELSE FocusNextTimes(FocusNext(f, n), n, k - 1)

\* the step handles key in the form on screen
FormKeyStep(keys) ==
  /\ phase = "running"
  /\ FormActive
  /\ ~m.isBusy
  /\ last'.msg.type = "key"
  /\ last'.msg.key \in keys

\* C11: in the create form and in the edit form, tab / down move the focus
\* index f of a form of n fields to (f + 1) mod n and shift+tab / up move it
\* to f - 1, or to n - 1 from 0; the index stays in 0..n-1, and n presses of
\* focus-next bring it back to where it was.
C11_FocusCycles ==
  [][FormKeyStep({"tab", "down", "shift+tab", "up"})
     => LET n == Len(FormInputs(m))
            f == FormFocus(m)
        IN /\ m'.currentScene = m.currentScene
           /\ Len(FormInputs(m')) = n
           /\ FormFocus(m') \in 0..(n - 1)
           /\ last'.msg.key \in {"tab", "down"} =>
                /\ FormFocus(m') = (IF f = n - 1 THEN 0 ELSE f + 1)
                /\ FocusNextTimes(f, n, n) = f
           /\ last'.msg.key \in {"shift+tab", "up"} =>
                FormFocus(m') = (IF f = 0 THEN n - 1 ELSE f - 1)]_vars

\* C11 witness: focus-prev has wrapped from the first field of the edit form
\* to its last one.
C11_Witness ==
  /\ m.currentScene = "EditForm"
  /\ last.msg.type = "key" /\ last.msg.key \in {"shift+tab", "up"}
  /\ m.editFocusIndex = Len(m.editFormInputs) - 1

\* C12 (as claimed): the session never crashes, and while a form is on screen
\* it has at least one field, its focus index is an index of the form, and
\* the input at the focus index is the only one that has focus.
C12_FormFocusValid ==
  /\ phase # "crashed"
  /\ FormActive =>
       /\ Len(FormInputs(m)) >= 1
       /\ Len(FormLabels(m)) = Len(FormInputs(m))
       /\ FormFocus(m) \in 0..(Len(FormInputs(m)) - 1)
       /\ \A i \in 1..Len(FormInputs(m)) : FormInputs(m)[i].focus <=> i = FormFocus(m) + 1

\* the value of a cyclic field after k presses in direction dir
RECURSIVE CycleTimes(_, _, _, _)
CycleTimes(v, opts, dir, k) ==
  IF k = 0 THEN v ELSE CycleTimes(cycleOption(v, opts, dir), opts, dir, k - 1)

\* the option lists the cyclic fields have in this state: the two fixed
\* ones, and the fetched template list when it is not empty
CyclicLists ==
  {zoneOptions, clusterOptions} \cup
  (IF m.templatesForCluster # <<>> THEN {m.templatesForCluster} ELSE {})

\* C13 (as claimed): for every option list a cyclic field has and every value
\* of the list, N cycles of +1 give the value back, and one cycle of -1 from
\* option 0 gives option N-1.
C13_CycleWraps ==
  \A opts \in CyclicLists :
     /\ \A i \in 1..Len(opts) : CycleTimes(opts[i], opts, 1, Len(opts)) = opts[i]
     /\ cycleOption(opts[1], opts, -1) = opts[Len(opts)]

\* the members of an option list
Options(opts) == {opts[i] : i \in 1..Len(opts)}

\* the option list of the field label of the form on screen, <<>> when the
\* field does not cycle there
OptionsOf(mm, label) ==
  IF label = "zone" THEN zoneOptions
  ELSE IF label = "cluster" THEN clusterOptions
  ELSE IF label = "vm_template" /\ mm.currentScene = "CreateForm" THEN mm.templatesForCluster
  ELSE <<>>

\* the label and the value of the focused field of the form on screen
FocusLabel(mm) == FormLabels(mm)[FormFocus(mm) + 1]

FocusValue(mm) == FormInputs(mm)[FormFocus(mm) + 1].value

\* C14 (as claimed): "left" or "right" on a cyclic field whose value is not in
\* its option list counts the value as option 0 and moves from there:
\* "right" gives option 1 mod N, "left" gives option N-1.
C14_OutOfCatalogMoves ==
  [][(/\ FormKeyStep({"left", "right"})
      /\ OptionsOf(m, FocusLabel(m)) # <<>>
      /\ FocusValue(m) \notin Options(OptionsOf(m, FocusLabel(m))))
     => LET opts == OptionsOf(m, FocusLabel(m))
            N == Len(opts)
        IN FocusValue(m') = IF last'.msg.key = "right" THEN opts[(1 % N) + 1] ELSE opts[N]]_vars

\* C15 (as claimed): while a form is on screen, its zone field holds a zone
\* option and its cluster field holds a cluster option.
C15_CyclicValueInOptions ==
  FormActive =>
    \A i \in 1..Len(FormLabels(m)) :
       /\ FormLabels(m)[i] = "zone" => FormInputs(m)[i].value \in Options(zoneOptions)
       /\ FormLabels(m)[i] = "cluster" => FormInputs(m)[i].value \in Options(clusterOptions)

\* the fields the spec's exclusion policy keeps out of a preset's reach in
\* the create form
ExcludedFromPreset == {"zone", "cluster"}

\* what a form field shows of a preset value
PresetText(preset, label) ==
  IF HasValue(preset, label) THEN Stringify(preset.Values[label]) ELSE <<>>

\* C16 (as claimed): when a key of the create form has applied another preset,
\* every field the preset has a value for shows that value stringified,
\* except zone and cluster, which keep the value they had.
C16_PresetOverwritesButExcluded ==
  [][(/\ FormKeyStep({"f2", "f3"})
      /\ m.currentScene = "CreateForm"
      /\ m'.presetIdx # m.presetIdx)
     => LET preset == m'.presets[m'.presetIdx + 1] IN
        \A i \in 1..Len(createLabels) :
           HasValue(preset, createLabels[i]) =>
             m'.createInputs[i].value =
               IF createLabels[i] \in ExcludedFromPreset THEN m.createInputs[i].value
               ELSE PresetText(preset, createLabels[i])]_vars

\* the preset index after k presses of F3 from idx
RECURSIVE PresetNextTimes(_, _, _)
PresetNextTimes(idx, count, k) ==
  IF k = 0 THEN idx ELSE PresetNextTimes((idx + 1) % count, count, k - 1)

\* C17 (as claimed): in the create form, whichever field has focus, F3 moves
\* the preset index to (index + 1) mod count and F2 to (index - 1) mod count,
\* and the fields the new preset has a value for (zone and cluster aside)
\* show it; the index stays in 0..count-1 and count presses of F3 bring it back.
C17_PresetKeysAnywhere ==
  [][(FormKeyStep({"f2", "f3"}) /\ m.currentScene = "CreateForm")
     => LET count == Len(m.presets)
            idx == IF last'.msg.key = "f3" THEN (m.presetIdx + 1) % count
                   ELSE (m.presetIdx - 1 + count) % count
        IN /\ m'.presetIdx = idx
           /\ m'.presetIdx \in 0..(count - 1)
           /\ PresetNextTimes(m.presetIdx, count, count) = m.presetIdx
           /\ \A i \in 1..Len(createLabels) :
                (HasValue(m.presets[idx + 1], createLabels[i]) /\ createLabels[i] \notin ExcludedFromPreset)
                  => m'.createInputs[i].value = PresetText(m.presets[idx + 1], createLabels[i])]_vars

\* C18 (as claimed): "n" in the launcher opens the create form with every
\* field holding what the active preset gives it: the stringified value of
\* its key, or nothing when the preset has no value for it.
C18_NewFormIsFresh ==
  [][(/\ phase = "running"
      /\ m.currentScene = "Launcher"
      /\ ~m.isBusy
      /\ last'.msg = KeyMsg("n"))
     => /\ m'.currentScene = "CreateForm"
        /\ \A i \in 1..Len(createLabels) :
             m'.createInputs[i].value = PresetText(m'.presets[m'.presetIdx + 1], createLabels[i])]_vars

DeclarationOf(line, key) == LineParses(line) /\ LineKey(line) = KeyText[key]

\* C20: "enter" in the edit form changes nothing but lines of the selected
\* deployment's variables file that declare a field of the edit form: the
\* number of lines, every other line, the state record and the other files
\* of the deployment and every other deployment are as before; the step
\* runs neither init nor apply and the scene stays EditForm.
C20_SaveTouchesEditableOnly ==
  [][(FormKeyStep({"enter"}) /\ m.currentScene = "EditForm")
     => LET path == m.editFormPath IN
        /\ m'.currentScene = "EditForm"
        /\ DOMAIN fs' = DOMAIN fs
        /\ \A d \in DOMAIN fs \ {path} : fs'[d] = fs[d]
        /\ path \in DOMAIN fs =>
             /\ fs'[path] = [fs[path] EXCEPT !.tfvars = fs'[path].tfvars]
             /\ Len(fs'[path].tfvars) = Len(fs[path].tfvars)
             /\ \A i \in 1..Len(fs[path].tfvars) :
                  fs'[path].tfvars[i] # fs[path].tfvars[i] =>
                    \E k \in Options(m.editFormLabels) : DeclarationOf(fs[path].tfvars[i], k)
        /\ \A i \in 1..Len(last'.trace) : last'.trace[i].step = "tfvars"]_vars

\* C20 witness: a save has written a description typed in the edit form, and
\* the line of the unknown key is still in the file.
C20_Witness ==
  /\ SaveRan /\ AllOk(last.trace)
  /\ m.currentScene = "EditForm"
  /\ \E i \in 1..Len(fs[last.target].tfvars) :
       fs[last.target].tfvars[i] = FormatDecl("platform_description", Quote(<<" ">>))
  /\ \E i \in 1..Len(fs[last.target].tfvars) :
       fs[last.target].tfvars[i] = <<"e", "x", "t", "r", "a", " ", "=", " ", "1">>

\* the variables files of this state: the template's, and every deployment's
TfvarsTexts == {TemplateTfvars} \cup {fs[d].tfvars : d \in {x \in DOMAIN fs : fs[x].hasTfvars}}

\* the update mappings the forms of this state hand to saveTfvars
UpdateMaps ==
  {CreateUpdates(m.createInputs)} \cup
  (IF m.editFormInputs # <<>>
   THEN {EditUpdates(m.editFormInputs, m.editFormLabels, m.fieldMeta)} ELSE {})

\* C21: whenever a handler has patched a variables file, patching any
\* variables file of the state (the one just patched, the template's, another
\* deployment's) twice with the updates of a form gives the text that
\* patching it once gives.
C21_PatchIdempotent ==
  Succeeded("tfvars") =>
    \A lines \in TfvarsTexts, u \in UpdateMaps :
       saveTfvars(saveTfvars(lines, u), u) = saveTfvars(lines, u)

\* C21 witness: create-submit has patched the copy of the template, the patch
\* changed the text, and patching the result again changes nothing.
C21_Witness ==
  /\ CreateRan /\ Succeeded("tfvars")
  /\ fs[last.target].tfvars # TemplateTfvars
  /\ saveTfvars(fs[last.target].tfvars, CreateUpdates(m.createInputs)) = fs[last.target].tfvars

\* the trimmed text of the line starts with the key followed by "=" or a blank
StartsWithKey(line, key) ==
  \/ HasPrefix(TrimSpace(line), KeyText[key] \o <<"=">>)
  \/ HasPrefix(TrimSpace(line), KeyText[key] \o <<" ">>)

\* C22: whenever a handler has patched a variables file, a patch of any
\* variables file of the state with the updates of a form keeps the number
\* of lines, changes only lines that start with an update key, and declares
\* no update key the file did not declare.
C22_PatchFrame ==
  Succeeded("tfvars") =>
    \A lines \in TfvarsTexts, u \in UpdateMaps :
       LET out == saveTfvars(lines, u) IN
       /\ Len(out) = Len(lines)
       /\ \A i \in 1..Len(lines) :
            out[i] # lines[i] => \E k \in DOMAIN u : StartsWithKey(lines[i], k)
       /\ \A k \in DOMAIN u :
            (\A i \in 1..Len(lines) : ~StartsWithKey(lines[i], k))
              => \A i \in 1..Len(out) : ~StartsWithKey(out[i], k)

\* C22 witness: create-submit has patched the copy of the template: the
\* comment is still the first line, the line of the unknown key and the blank
\* line are in their places, and vm_network_suffix, which the form has and
\* the file has not, is still not declared.
C22_Witness ==
  /\ CreateRan /\ Succeeded("tfvars")
  /\ Len(fs[last.target].tfvars) = Len(TemplateTfvars)
  /\ fs[last.target].tfvars[1] = TemplateTfvars[1]
  /\ fs[last.target].tfvars[13] = <<"e", "x", "t", "r", "a", " ", "=", " ", "1">>
  /\ fs[last.target].tfvars[14] = <<>>
  /\ \E i \in 1..14 : fs[last.target].tfvars[i] # TemplateTfvars[i]
  /\ \A i \in 1..14 : ~StartsWithKey(fs[last.target].tfvars[i], "vm_network_suffix")

\* the value the form whose handler patched last holds for field label
PatchedFormValue(label) ==
  IF CreateRan THEN ValueOf(m.createInputs, createLabels, label)
  ELSE ValueOf(m.editFormInputs, m.editFormLabels, label)

\* the form whose handler patched last has field label
PatchedFormHas(label) ==
  CreateRan \/ \E i \in 1..Len(m.editFormLabels) : m.editFormLabels[i] = label

\* the texts the lines of the patched file declare for field label
PersistedValues(label) ==
  {LineVal(fs[last.target].tfvars[i]) :
     i \in {j \in 1..Len(fs[last.target].tfvars) : StartsWithKey(fs[last.target].tfvars[j], label)}}

\* the edit form was opened by the last key
EditFormOpened ==
  m.currentScene = "EditForm" /\ last.msg = KeyMsg("enter") /\ last.trace = <<>>

\* C23 (as claimed): a create-submit or an edit save with vm_disk_size empty
\* persists the value [], and an edit form opened on a file that declares
\* vm_disk_size = [] shows the field empty.
C23_EmptyListIsEmptyBrackets ==
  /\ (Succeeded("tfvars") /\ PatchedFormHas("vm_disk_size") /\ PatchedFormValue("vm_disk_size") = <<>>)
       => PersistedValues("vm_disk_size") = {<<"[", "]">>}
  /\ (EditFormOpened /\ PatchedFormHas("vm_disk_size")
         /\ Lookup(loadTfvars(fs[m.editFormPath].tfvars), KeyText["vm_disk_size"]) = <<"[", "]">>)
       => ValueOf(m.editFormInputs, m.editFormLabels, "vm_disk_size") = <<>>

\* lists of strings without quote or comma: those of the presets, the
\* template's, and one whose element ends with a bracket
DiskSizeLists ==
  {<< <<"1", "0", "0", "G">>, <<"5", "0", "G">> >>,
   << <<"2", "0", "G">> >>,
   << <<"1", "0", "G">> >>,
   << <<"5", "G", "]">> >>}

\* the text the variables file of the edit form declares for vm_disk_size
LoadedDiskSize == Lookup(loadTfvars(fs[m.editFormPath].tfvars), KeyText["vm_disk_size"])

\* C24 (as claimed): when the edit form is opened on a file whose vm_disk_size
\* is the encoding of a non-empty list of strings without quote or comma, a
\* save without edits writes that same text.
C24_ListRoundTrip ==
  (/\ EditFormOpened
   /\ PatchedFormHas("vm_disk_size")
   /\ \E l \in DiskSizeLists : LoadedDiskSize = EncodeList(Join(l, <<",">>)))
  => EditUpdates(m.editFormInputs, m.editFormLabels, m.fieldMeta)["vm_disk_size"] = LoadedDiskSize

\* the preset the create form was filled from last
ActivePreset == m.presets[m.presetIdx + 1]

\* every field of the create form the active preset has a value for shows it
FormUnedited ==
  \A i \in 1..Len(createLabels) :
     HasValue(ActivePreset, createLabels[i]) =>
       m.createInputs[i].value = PresetText(ActivePreset, createLabels[i])

\* the list [e1..ek] as the variables file holds it: ["e1", ..., "ek"]
BracketedList(l) ==
  <<"[">> \o Join([i \in 1..Len(l) |-> Quote(l[i])], <<",", " ">>) \o <<"]">>

\* C25: at start the create form shows the first preset's vm_memory 8192 as
\* "8192" and its vm_disk_size ["100G", "50G"] as "100G,50G"; a create-submit
\* that succeeded on a form showing the active preset's values has persisted
\* vm_memory as the bare decimal text, vm_disk_size as ["e1", ..., "ek"] and
\* every string-typed field the file declares in double quotes.
C25_PresetShownAndPersisted ==
  /\ nEvents = 0 =>
       /\ ValueOf(m.createInputs, createLabels, "vm_memory") = <<"8", "1", "9", "2">>
       /\ ValueOf(m.createInputs, createLabels, "vm_disk_size")
            = <<"1", "0", "0", "G", ",", "5", "0", "G">>
  /\ (CreateRan /\ AllOk(last.trace) /\ FormUnedited) =>
       /\ ValueOf(m.createInputs, createLabels, "vm_memory") = Decimal(ActivePreset.Values["vm_memory"].v)
       /\ PersistedValues("vm_memory") = {Decimal(ActivePreset.Values["vm_memory"].v)}
       /\ PersistedValues("vm_disk_size") = {BracketedList(ActivePreset.Values["vm_disk_size"].v)}
       /\ m.presetIdx = 0 =>
            /\ PersistedValues("vm_memory") = {<<"8", "1", "9", "2">>}
            /\ PersistedValues("vm_disk_size")
                 = {<<"[", "\"", "1", "0", "0", "G", "\"", ",", " ", "\"", "5", "0", "G", "\"", "]">>}
       /\ \A i \in 1..Len(createLabels) :
            m.fieldMeta[createLabels[i]].Type = "string" =>
              PersistedValues(createLabels[i]) \subseteq {Quote(m.createInputs[i].value)}

\* C25 witness: a create-submit of the unedited first preset has gone through
\* and the file declares vm_app in double quotes.
C25_Witness ==
  /\ CreateRan /\ AllOk(last.trace) /\ FormUnedited
  /\ m.presetIdx = 0
  /\ PersistedValues("vm_app") = {Quote(<<"w", "e", "b">>)}

\* rows is a listing of the apps directory disk: one row for every
\* subdirectory and no other row; UNKNOWN for a directory without state
\* file, the recorded state otherwise; an empty description for a directory
\* without variables file
ListingOf(rows, disk) ==
  /\ Len(rows) = Cardinality(DOMAIN disk)
  /\ \A d \in DOMAIN disk :
       \E i \in 1..Len(rows) :
          /\ rows[i].Path = d /\ rows[i].Name = d
          /\ \A j \in 1..Len(rows) : rows[j].Path = d => j = i
          /\ rows[i].State = (IF disk[d].state = "NONE" THEN "UNKNOWN" ELSE disk[d].state)
          /\ ~disk[d].hasTfvars => rows[i].Description = <<>>

\* the launcher has just listed the apps directory: at start, or on "r"
JustListed ==
  \/ nEvents = 0
  \/ last.msg = KeyMsg("r") /\ m.currentScene = "Launcher" /\ m.statusMessage = "Deployments refreshed!"

\* C26: whenever the launcher has listed the apps directory, its rows are one
\* per subdirectory, with UNKNOWN for a missing state file and an empty
\* description for a missing variables file, none dropped.
C26_ListingKeepsEveryRow ==
  JustListed => ListingOf(m.deployments, fs)

\* C26 witness: a refresh has listed two directories, one of them without
\* state file and without variables file.
C26_Witness ==
  /\ last.msg = KeyMsg("r") /\ m.currentScene = "Launcher"
  /\ Len(m.deployments) = 2
  /\ \E i \in 1..2 :
       /\ ~fs[m.deployments[i].Path].hasTfvars
       /\ fs[m.deployments[i].Path].state = "NONE"
       /\ m.deployments[i].State = "UNKNOWN"
       /\ m.deployments[i].Description = <<>>

\* C27 (as claimed): "u" in the launcher with a deployment selected whose
\* variables file can be read opens the edit form of that deployment.
C27_UpdateKeyOpensEditForm ==
  [][(/\ phase = "running"
      /\ m.currentScene = "Launcher"
      /\ ~m.isBusy
      /\ last'.msg = KeyMsg("u")
      /\ m.deployCursor \in 0..(Len(m.deployments) - 1)
      /\ m.deployments[m.deployCursor + 1].Path \in DOMAIN fs
      /\ fs[m.deployments[m.deployCursor + 1].Path].hasTfvars
      /\ buildEditFormLabels(m.fieldMeta, createLabels) # <<>>)
     => /\ m'.currentScene = "EditForm"
        /\ m'.editFormPath = m.deployments[m.deployCursor + 1].Path
        /\ m'.editFormInputs
             = FocusOnly(buildEditFormInputs(loadTfvars(fs[m'.editFormPath].tfvars), m'.editFormLabels), 1)]_vars

\* the inputs model mm holds for the form of scene
SceneInputs(mm, scene) == IF scene = "CreateForm" THEN mm.createInputs ELSE mm.editFormInputs

\* the fields of the form on screen that only cycle
CyclicField(mm, label) ==
  IF mm.currentScene = "CreateForm" THEN label \in {"zone", "cluster", "vm_template"}
  ELSE label \in {"zone", "cluster"}

\* C28 (as claimed): while a cyclic field has focus, a key (the preset keys
\* aside) leaves the value of that field unchanged or sets it to one of the
\* field's options.
C28_CyclicFieldTakesNoText ==
  [][(FormKeyStep(Keys \ {"f2", "f3"}) /\ CyclicField(m, FocusLabel(m)))
     => \/ SceneInputs(m', m.currentScene)[FormFocus(m) + 1].value = FocusValue(m)
        \/ SceneInputs(m', m.currentScene)[FormFocus(m) + 1].value \in Options(OptionsOf(m, FocusLabel(m)))]_vars

\* the text with character c inserted at position pos
Inserted(text, pos, c) == SubSeq(text, 1, pos) \o <<c>> \o SubSeq(text, pos + 1, Len(text))

\* C29 (as claimed): while a free-text field has focus, a printable key is
\* inserted into the field at the cursor, the scene stays, no file changes,
\* no external step runs and the session goes on.
C29_FreeTextTakesEveryLetter ==
  [][(FormKeyStep(Printable) /\ ~CyclicField(m, FocusLabel(m)))
     => /\ SceneInputs(m', m.currentScene)[FormFocus(m) + 1].value
             = Inserted(FocusValue(m), FormInputs(m)[FormFocus(m) + 1].pos, last'.msg.key)
        /\ m'.currentScene = m.currentScene
        /\ fs' = fs
        /\ last'.trace = <<>>
        /\ phase' = "running"]_vars

\* C30 (as claimed): after a failed create-submit and after a failed fetch
\* handled by the create form, the view renders statusMessage; after a failed
\* load of the edit form in the launcher, the view renders editStatus, where
\* the error was put.
C30_FailureMessageIsRendered ==
  /\ (CreateRan /\ ~AllOk(last.trace)) => "statusMessage" \in View(m)
  /\ (last.msg.type = "fetched" /\ last.msg.err /\ m.statusMessage = "Could not fetch templates")
       => "statusMessage" \in View(m)
  /\ (last.msg = KeyMsg("enter") /\ m.currentScene = "Launcher" /\ last.trace = <<>>
         /\ m.editStatus = "Could not load tfvars")
       => "editStatus" \in View(m)

\* the values the edit form would show if it were opened now on the directory
\* it edits: the inputs OpenEditForm builds from the file as it stands
ReopenedInputs == buildEditFormInputs(loadTfvars(fs[m.editFormPath].tfvars), m.editFormLabels)

\* an edit-form save has just ended well
SaveSucceeded == SaveRan /\ AllOk(last.trace) /\ m.currentScene = "EditForm"

\* C31: after a value v of an editable string-typed field was saved from the
\* edit form, reopening the edit form for the same deployment shows exactly v
\* in that field, whatever characters v begins or ends with
C31_SavedTextReopensUnchanged ==
  SaveSucceeded
    => \A i \in 1..Len(m.editFormLabels) :
         m.fieldMeta[m.editFormLabels[i]].Type = "string"
           => ReopenedInputs[i].value = m.editFormInputs[i].value

\* C33: the flag isFetchingTemplates is true exactly when a fetch request has
\* been issued whose result has not been processed yet, for any number of
\* overlapping requests and whatever the scene at delivery
C33_FlagTracksOutstanding == m.isFetchingTemplates <=> pending # EmptyBag

\* C34: whenever the scene is the launcher, the deployments it holds are the
\* deployments on disk as this program last changed them: a row for every
\* directory, a created one included, each with the state record last written
C34_LauncherListIsCurrent ==
  m.currentScene = "Launcher" => ListingOf(m.deployments, fs)

\* C35: a create-submit that got past the scaffold copy leaves the directory
\* of its identity on disk; no step removes a directory; every create-submit
\* whose identity has a directory stops at the existence check, runs no other
\* step and changes no file; and the state record of an existing directory
\* changes only when the edit form's apply is run on it. So after a
\* create-submit failed past the copy, every later one with the same identity
\* fails at the existence check and the record stays as the failure left it.
C35_PartialBlocksResubmit ==
  [][LET tr == last'.trace IN
     /\ (/\ tr # <<>> /\ tr[1].step = "exists"
         /\ \E i \in 1..Len(tr) : tr[i].step = "copy" /\ tr[i].ok)
        => last'.target \in DOMAIN fs'
     /\ \A d \in DOMAIN fs :
          /\ d \in DOMAIN fs'
          /\ RecordAt(fs', d) # RecordAt(fs, d)
               => tr # <<>> /\ tr[1].step = "init" /\ last'.target = d
     /\ (/\ phase = "running" /\ m.currentScene = "CreateForm" /\ ~m.isBusy
         /\ last'.msg = KeyMsg("enter")
         /\ AppDir(m.createInputs) \in DOMAIN fs)
        => /\ fs' = fs
           /\ Len(tr) = 1 /\ tr[1].step = "exists" /\ ~tr[1].ok
           /\ tr[1].state = RecordAt(fs, AppDir(m.createInputs))]_vars

\* C35 witness: the apps directory was empty at the last listing, a
\* create-submit of this session left a directory whose record is not
\* DEPLOYED (it failed past the copy), and the create-submit just handled
\* was stopped by the existence check on that directory.
C35_Witness ==
  /\ m.deployments = <<>>
  /\ CreateRan /\ Failed("exists")
  /\ DOMAIN fs = {last.target}
  /\ fs[last.target].hasTfvars
  /\ RecordAt(fs, last.target) # "DEPLOYED"

\* a result has been delivered to the create form and its list is shown: the
\* list is not empty, or the event just handled was a result without error
ListDelivered ==
  \/ m.templatesForCluster # <<>>
  \/ last.msg.type = "fetched" /\ ~last.msg.err

\* C32: in the create form, once a fetched list is shown and no request is
\* outstanding, the vm_template options are the list of the cluster the
\* cluster field shows, whatever the order of delivery and whatever changed
\* the cluster value
C32_ListMatchesShownCluster ==
  (m.currentScene = "CreateForm" /\ pending = EmptyBag /\ ListDelivered)
    => m.templatesForCluster = Inventory(ValueOf(m.createInputs, createLabels, "cluster"))
====
